---- MODULE Spec2Model ----
(***************************************************************************)
(* State-machine model of the LiveSession voice component                  *)
(* (src/types.ts, lines 587-1015): its refs and React state, the           *)
(* startSession / cleanup / handleCreatePlan operations and the channel,   *)
(* capture and playback callbacks it registers.                            *)
(* Further sections model the transport codec, the App component           *)
(* (src/App.tsx), the ChatBot (src/unnamed/part_002) and the read-aloud    *)
(* of ItineraryResult (src/components/ItineraryResult.tsx).                *)
(***************************************************************************)
EXTENDS Integers, Sequences, FiniteSets, TLC

\* ------------------------------------------------------------------ bounds
MaxSessions == 2      \* startSession invocations on one component instance
MaxCleanups == 2      \* cleanup() invocations
MaxFrames   == 1      \* capture callbacks in a lifecycle or playback run
MaxLifeMsgs == 1      \* channel messages in a lifecycle run
MaxMsgs     == 2      \* channel messages in a playback run
MaxTextMsgs == 3      \* channel messages in a transcript run
MaxClock    == 2      \* largest reading of the output clock (ctx.currentTime)
ScenarioFrames == 3   \* capture callbacks in the end-to-end scenario
ScenarioDeltas == 1   \* transcription deltas in the end-to-end scenario
MaxSendFrames == 2    \* capture callbacks in a forwarding run

MaxPairs    == 3      \* 16-bit samples in a buffer handed to the codec
MaxRequests == 3      \* generateItinerary invocations in an App run
MaxLiveCalls == 2     \* handlePlanFromLive invocations in an App run
MaxSaves    == 3      \* handleSaveItinerary invocations in a run
MaxSends    == 2      \* accepted handleSend invocations in a chat run
MaxContexts == 2      \* AudioContexts created for reading aloud
MaxInstances == 2     \* ItineraryResult instances mounted one after another
HistoryCap  == 10     \* history.slice(0, 10), src/App.tsx line 93
Sessions == 1..MaxSessions

VARIABLES
  status,                 \* useState status
  cookingStage,           \* useState cookingStage
  isAgentSpeaking,        \* useState isAgentSpeaking
  mountedRef,             \* mountedRef.current
  streamRef,              \* streamRef.current          (0 = null, else session)
  inputContextRef,        \* inputContextRef.current    (0 = null, else session)
  outputContextRef,       \* outputContextRef.current   (0 = null, else session)
  sessionPromiseRef,      \* sessionPromiseRef.current  (0 = null, else session)
  nextStartTimeRef,       \* nextStartTimeRef.current
  sourcesRef,             \* sourcesRef.current: set of indices into handles
  transcriptionRef,       \* transcriptionRef.current
  currentInputTransRef,   \* currentInputTransRef.current
  currentOutputTransRef,  \* currentOutputTransRef.current
  startPc,                \* position of each startSession invocation
  stream,                 \* the MediaStream each invocation acquired
  inCtx,                  \* the 16 kHz AudioContext each invocation created
  outCtx,                 \* the 24 kHz AudioContext each invocation created
  chan,                   \* the channel each invocation connected
  promise,                \* the promise liveClient.connect returned
  thens,                  \* callbacks registered on a pending promise
  handler,                \* processor.onaudioprocess installed
  clock,                  \* outputContextRef.current.currentTime
  handles,                \* every AudioBufferSourceNode created
  decoding,               \* onmessage invocations suspended at the await
  plans,                  \* handleCreatePlan timers that have not fired yet
  planned,                \* transcripts passed to onCreatePlan
  errors,                 \* rejected promises and exceptions nobody handles
  sent,                   \* frames passed to session.sendRealtimeInput
  log,                    \* event counters and the last event handled
  pcm16,                  \* the bytes handed to encodeBase64
  base64Data,             \* the text encodeBase64 returned
  decoded,                \* the bytes decodeBase64 returned
  codecPc,                \* position of a codec run
  mode,                   \* App: useState mode
  loading,                \* App: useState loading
  itinerary,              \* App: useState itinerary (0 = null, else request)
  liveTranscript,         \* App: useState liveTranscript
  requests,               \* App: generateItinerary invocations, in start order
  liveCalls,              \* App: transcripts passed to handlePlanFromLive
  history,                \* localStorage 'thai_guide_saved_trips', parsed
  saves,                  \* App: outcome of each handleSaveItinerary call
  messages,               \* ChatBot: useState messages
  input,                  \* ChatBot: useState input
  chatLoading,            \* ChatBot: useState loading
  chatSession,            \* ChatBot: chatSession.current is set
  chatMounted,            \* ChatBot: the component is mounted
  isPlaying,              \* each ItineraryResult: useState isPlaying
  isLoadingAudio,         \* each ItineraryResult: useState isLoadingAudio
  audioContextRef,        \* each ItineraryResult: audioContextRef.current
  contexts,               \* every AudioContext handleReadAloud created
  speech,                 \* each ItineraryResult: the awaited generateSpeech
  closing,                \* contexts whose close().then has not run yet
  readMounted             \* each ItineraryResult: not yet, now, no longer

vars == << status, cookingStage, isAgentSpeaking, mountedRef, streamRef,
           inputContextRef, outputContextRef, sessionPromiseRef,
           nextStartTimeRef, sourcesRef, transcriptionRef,
           currentInputTransRef, currentOutputTransRef, startPc, stream,
           inCtx, outCtx, chan, promise, thens, handler, clock, handles,
           decoding, plans, planned, errors, sent, log,
           pcm16, base64Data, decoded, codecPc,
           mode, loading, itinerary, liveTranscript, requests, liveCalls,
           history, saves,
           messages, input, chatLoading, chatSession, chatMounted,
           isPlaying, isLoadingAudio, audioContextRef, contexts, speech,
           closing, readMounted >>

uiVars   == << status, cookingStage, isAgentSpeaking >>
refVars  == << streamRef, inputContextRef, outputContextRef, sessionPromiseRef >>
objVars  == << startPc, stream, inCtx, outCtx, chan, promise, thens, handler >>
playVars == << nextStartTimeRef, sourcesRef, clock, handles, decoding >>
textVars == << transcriptionRef, currentInputTransRef, currentOutputTransRef >>
planVars == << plans, planned >>
codecVars == << pcm16, base64Data, decoded, codecPc >>
appVars  == << mode, loading, itinerary, liveTranscript, requests, liveCalls >>
saveVars == << history, saves >>
chatVars == << messages, input, chatLoading, chatSession, chatMounted >>
readVars == << isPlaying, isLoadingAudio, audioContextRef, contexts, speech,
              closing, readMounted >>
widgetVars == << chatVars, readVars >>
pageVars == << appVars, saveVars, widgetVars >>
liveVars == << uiVars, mountedRef, refVars, playVars, textVars, planVars,
               objVars, errors, sent, log >>

\* --------------------------------------------------------------- helpers
Max(a, b) == IF a >= b THEN a ELSE b

RemoveAt(q, i) == SubSeq(q, 1, i - 1) \o SubSeq(q, i + 1, Len(q))

IsPrefix(p, q) == Len(p) <= Len(q) /\ SubSeq(q, 1, Len(p)) = p

\* one more event of kind k has been handled; op names it
Logged(k, op) == [log EXCEPT ![k] = @ + 1, !.op = op]

\* ------------------------------------------------------------------ Init
\* no codec run is in progress
CodecIdle ==
  /\ pcm16 = << >>
  /\ base64Data = << >>
  /\ decoded = << >>
  /\ codecPc = "idle"

\* the component as constructed
Mounted ==
  /\ status = "idle"
  /\ cookingStage = 0
  /\ isAgentSpeaking = FALSE
  /\ mountedRef = TRUE
  /\ streamRef = 0
  /\ inputContextRef = 0
  /\ outputContextRef = 0
  /\ sessionPromiseRef = 0
  /\ nextStartTimeRef = 0
  /\ sourcesRef = {}
  /\ transcriptionRef = << >>
  /\ currentInputTransRef = << >>
  /\ currentOutputTransRef = << >>
  /\ startPc = [s \in Sessions |-> "none"]
  /\ stream = [s \in Sessions |-> "none"]
  /\ inCtx = [s \in Sessions |-> "none"]
  /\ outCtx = [s \in Sessions |-> "none"]
  /\ chan = [s \in Sessions |-> "none"]
  /\ promise = [s \in Sessions |-> "none"]
  /\ thens = [s \in Sessions |-> << >>]
  /\ handler = [s \in Sessions |-> FALSE]
  /\ clock = 0
  /\ handles = << >>
  /\ decoding = << >>
  /\ plans = << >>
  /\ planned = << >>
  /\ errors = {}
  /\ sent = << >>
  /\ log = [op |-> "init", starts |-> 0, cleanups |-> 0, frames |-> 0,
            msgs |-> 0, audio |-> 0, intrs |-> 0, turns |-> 0, opens |-> 0,
            early |-> FALSE, rebase |-> FALSE, seen |-> 0, heard |-> 0,
            deltas |-> [in |-> << >>, out |-> << >>],
            turn |-> [in |-> << >>, out |-> << >>]]

\* the App component as constructed, with nothing saved yet
NoTranscript == "null"

AppStart ==
  /\ mode = "LIVE"
  /\ loading = FALSE
  /\ itinerary = 0
  /\ liveTranscript = NoTranscript
  /\ requests = << >>
  /\ liveCalls = << >>

NothingSaved ==
  /\ history = << >>
  /\ saves = << >>

AppIdle == AppStart /\ NothingSaved

\* message texts are sequences of characters or of whole phrases
Greeting == << "Sawasdee ka! I am Somsri." >>

\* the ChatBot component as constructed, before its mount effect
ChatIdle ==
  /\ messages = << [role |-> "model", text |-> Greeting] >>
  /\ input = << >>
  /\ chatLoading = FALSE
  /\ chatSession = FALSE
  /\ chatMounted = TRUE

\* the first ItineraryResult as constructed; the later ones do not exist yet
Instances == 1..MaxInstances

ReadIdle ==
  /\ isPlaying = [i \in Instances |-> FALSE]
  /\ isLoadingAudio = [i \in Instances |-> FALSE]
  /\ audioContextRef = [i \in Instances |-> 0]
  /\ contexts = << >>
  /\ speech = [i \in Instances |-> "none"]
  /\ closing = {}
  /\ readMounted = [i \in Instances |-> IF i = 1 THEN "mounted" ELSE "none"]

WidgetsIdle == ChatIdle /\ ReadIdle

PagesIdle == AppIdle /\ WidgetsIdle

Init == Mounted /\ CodecIdle /\ PagesIdle

\* ----------------------------------------------- the objects the refs hold
\* AudioContext.close(): a running context becomes closed
CloseCtx(st) == IF st = "running" THEN "closed" ELSE st

\* AudioContext.close() on a closed context returns a rejected promise
CloseRejects(ref, ctxs) == ref # 0 /\ ctxs[ref] = "closed"

\* session.close(): requests the close of an open channel, else a no-op
SessionClose(c) == IF c = "open" THEN "closing" ELSE c

\* sendRealtimeInput on a channel that is not open may throw
MayThrow(c) == IF c = "open" THEN {FALSE} ELSE BOOLEAN

\* source.stop() on every member of the live set (inside try/catch)
StopAll(hs, live) ==
  [h \in DOMAIN hs |->
     IF h \in live /\ hs[h].st = "playing"
     THEN [hs[h] EXCEPT !.st = "stopped"] ELSE hs[h]]

\* a fault: the then-callbacks run last registered first
RECURSIVE RunThensLastFirst(_, _, _)
RunThensLastFirst(q, s, acc) ==
  IF q = << >> THEN acc
  ELSE RunThensLastFirst(SubSeq(q, 1, Len(q) - 1), s,
         IF q[Len(q)] = 0
         THEN [acc EXCEPT !.chan = SessionClose(@)]
         ELSE [acc EXCEPT !.sent = Append(@, << s, q[Len(q)] >>)])

\* the then-callbacks of a promise that resolves, run in registration order:
\* 0 is session.close(), n > 0 is session.sendRealtimeInput(frame n)
RECURSIVE RunThens(_, _, _)
RunThens(q, s, acc) ==
  IF q = << >> THEN acc
  ELSE RunThens(Tail(q), s,
         IF Head(q) = 0
         THEN [acc EXCEPT !.chan = SessionClose(@)]
         ELSE [acc EXCEPT !.sent = Append(@, << s, Head(q) >>)])

HasSend(q) == \E i \in DOMAIN q : q[i] # 0

\* ------------------------------------------------------------- startSession
\* the click on "Start Conversation" up to the await of getUserMedia
StartSession ==
  /\ mountedRef                      \* the component is on screen
  /\ cookingStage = 0                \* the stage that renders the button
  /\ log.starts < MaxSessions
  /\ status' = "connecting"
  /\ startPc' = [startPc EXCEPT ![log.starts + 1] = "awaitMic"]
  /\ log' = Logged("starts", "other")
  /\ UNCHANGED << cookingStage, isAgentSpeaking, mountedRef, refVars, playVars,
                  textVars, planVars, stream, inCtx, outCtx, chan, promise,
                  thens, handler, errors, sent >>
  /\ UNCHANGED << codecVars, pageVars >>

\* getUserMedia resolves: the rest of the try block, up to the connect call
MicGranted(s) ==
  /\ startPc[s] = "awaitMic"
  /\ startPc' = [startPc EXCEPT ![s] = "done"]
  /\ streamRef' = s
  /\ stream' = [stream EXCEPT ![s] = "live"]
  /\ inputContextRef' = s
  /\ inCtx' = [inCtx EXCEPT ![s] = "running"]
  /\ outputContextRef' = s
  /\ outCtx' = [outCtx EXCEPT ![s] = "running"]
  /\ clock' = 0
  /\ sessionPromiseRef' = s
  /\ promise' = [promise EXCEPT ![s] = "pending"]
  /\ chan' = [chan EXCEPT ![s] = "connecting"]
  /\ log' = [log EXCEPT !.op = "other"]
  /\ UNCHANGED << uiVars, mountedRef, nextStartTimeRef, sourcesRef, handles,
                  decoding, textVars, planVars, thens, handler, errors, sent >>
  /\ UNCHANGED << codecVars, pageVars >>

\* the statements of the try block that can throw once the stream is held
SetupSteps == {"inputContext", "outputContext", "connect"}

\* getUserMedia resolves and a later statement of the try block throws: the
\* constructor of the input or of the output context, or the connect call;
\* what was assigned before the throw stays assigned, then the catch block
SetupFails(s) ==
  /\ startPc[s] = "awaitMic"
  /\ startPc' = [startPc EXCEPT ![s] = "threw"]
  /\ streamRef' = s
  /\ stream' = [stream EXCEPT ![s] = "live"]
  /\ \E at \in SetupSteps :
       /\ IF at = "inputContext"
          THEN UNCHANGED << inputContextRef, inCtx >>
          ELSE /\ inputContextRef' = s
               /\ inCtx' = [inCtx EXCEPT ![s] = "running"]
       /\ IF at = "connect"
          THEN /\ outputContextRef' = s
               /\ outCtx' = [outCtx EXCEPT ![s] = "running"]
               /\ clock' = 0
          ELSE UNCHANGED << outputContextRef, outCtx, clock >>
  /\ status' = "error"
  /\ log' = [log EXCEPT !.op = "other"]
  /\ UNCHANGED << cookingStage, isAgentSpeaking, mountedRef, sessionPromiseRef,
                  nextStartTimeRef, sourcesRef, handles, decoding, textVars,
                  planVars, chan, promise, thens, handler, errors, sent >>
  /\ UNCHANGED << codecVars, pageVars >>

\* a fault: the output context is created before the microphone is awaited
MicDeniedAfterContext(s) ==
  /\ startPc[s] = "awaitMic"
  /\ startPc' = [startPc EXCEPT ![s] = "failed"]
  /\ status' = "error"
  /\ outputContextRef' = s
  /\ outCtx' = [outCtx EXCEPT ![s] = "running"]
  /\ log' = [log EXCEPT !.op = "other"]
  /\ UNCHANGED << cookingStage, isAgentSpeaking, mountedRef, streamRef,
                  inputContextRef, sessionPromiseRef, playVars, textVars,
                  planVars, stream, inCtx, chan, promise, thens, handler,
                  errors, sent >>
  /\ UNCHANGED << codecVars, pageVars >>

\* getUserMedia rejects: the catch block
MicDenied(s) ==
  /\ startPc[s] = "awaitMic"
  /\ startPc' = [startPc EXCEPT ![s] = "failed"]
  /\ status' = "error"
  /\ log' = [log EXCEPT !.op = "other"]
  /\ UNCHANGED << cookingStage, isAgentSpeaking, mountedRef, refVars, playVars,
                  textVars, planVars, stream, inCtx, outCtx, chan, promise,
                  thens, handler, errors, sent >>
  /\ UNCHANGED << codecVars, pageVars >>

\* ------------------------------------------------------------------ cleanup
CleanupBody ==
  /\ mountedRef' = FALSE
  /\ handles' = StopAll(handles, sourcesRef)
  /\ sourcesRef' = {}
  /\ inCtx' = IF inputContextRef # 0
              THEN [inCtx EXCEPT ![inputContextRef] = CloseCtx(@)] ELSE inCtx
  /\ outCtx' = IF outputContextRef # 0
               THEN [outCtx EXCEPT ![outputContextRef] = CloseCtx(@)] ELSE outCtx
  /\ stream' = IF streamRef # 0
               THEN [stream EXCEPT ![streamRef] = "stopped"] ELSE stream
  /\ chan' = IF sessionPromiseRef # 0 /\ promise[sessionPromiseRef] = "resolved"
             THEN [chan EXCEPT ![sessionPromiseRef] = SessionClose(@)] ELSE chan
  /\ thens' = IF sessionPromiseRef # 0 /\ promise[sessionPromiseRef] = "pending"
              THEN [thens EXCEPT ![sessionPromiseRef] = Append(@, 0)] ELSE thens
  /\ errors' = errors \cup
        (IF \/ CloseRejects(inputContextRef, inCtx)
            \/ CloseRejects(outputContextRef, outCtx)
         THEN {"close"} ELSE {})
  /\ log' = [log EXCEPT !.cleanups = @ + 1, !.op = "cleanup",
                        !.early = @ \/ (log.cleanups = 0 /\ log.opens = 0)]
  /\ UNCHANGED << uiVars, refVars, nextStartTimeRef, clock, decoding, textVars,
                  startPc, promise, handler, sent >>

\* the effect cleanup of the component (unmount), or a further call of it
Cleanup ==
  /\ CleanupBody
  /\ UNCHANGED planVars
  /\ UNCHANGED << codecVars, pageVars >>

\* ------------------------------------------------------ channel callbacks
OnOpen(s) ==
  /\ chan[s] = "connecting"
  /\ chan' = [chan EXCEPT ![s] = "open"]
  /\ IF mountedRef
     THEN status' = "connected" /\ cookingStage' = 1
     ELSE UNCHANGED << status, cookingStage >>
  /\ handler' = [handler EXCEPT ![s] = TRUE]
  /\ log' = Logged("opens", "other")
  /\ UNCHANGED << isAgentSpeaking, mountedRef, refVars, playVars, textVars,
                  planVars, startPc, stream, inCtx, outCtx, promise, thens,
                  errors, sent >>
  /\ UNCHANGED << codecVars, pageVars >>

\* the connect promise resolves with the session, after the opened signal
ResolveSession(s) ==
  /\ promise[s] = "pending"
  /\ chan[s] \notin {"none", "connecting"}
  /\ LET r == RunThens(thens[s], s, [chan |-> chan[s], sent |-> sent]) IN
       /\ chan' = [chan EXCEPT ![s] = r.chan]
       /\ sent' = r.sent
  /\ promise' = [promise EXCEPT ![s] = "resolved"]
  /\ thens' = [thens EXCEPT ![s] = << >>]
  /\ \E throws \in (IF HasSend(thens[s]) THEN MayThrow(chan[s]) ELSE {FALSE}) :
       errors' = errors \cup (IF throws THEN {"send"} ELSE {})
  /\ log' = [log EXCEPT !.op = "other"]
  /\ UNCHANGED << uiVars, mountedRef, refVars, playVars, textVars, planVars,
                  startPc, stream, inCtx, outCtx, handler >>
  /\ UNCHANGED << codecVars, pageVars >>

\* a fault: the closed event is reported as an error
OnCloseAsError(s) ==
  /\ chan[s] \in {"open", "closing", "errored"}
  /\ chan' = [chan EXCEPT ![s] = "closed"]
  /\ status' = IF mountedRef THEN "error" ELSE status
  /\ log' = [log EXCEPT !.op = "other"]
  /\ UNCHANGED << cookingStage, isAgentSpeaking, mountedRef, refVars, playVars,
                  textVars, planVars, startPc, stream, inCtx, outCtx, promise,
                  thens, handler, errors, sent >>
  /\ UNCHANGED << codecVars, pageVars >>

OnClose(s) ==
  /\ chan[s] \in {"open", "closing", "errored"}
  /\ chan' = [chan EXCEPT ![s] = "closed"]
  /\ status' = IF mountedRef THEN "disconnected" ELSE status
  /\ log' = [log EXCEPT !.op = "other"]
  /\ UNCHANGED << cookingStage, isAgentSpeaking, mountedRef, refVars, playVars,
                  textVars, planVars, startPc, stream, inCtx, outCtx, promise,
                  thens, handler, errors, sent >>
  /\ UNCHANGED << codecVars, pageVars >>

\* a fault: the error handler connects again
OnErrorReconnects(s) ==
  /\ chan[s] \in {"connecting", "open", "closing"}
  /\ chan' = [chan EXCEPT ![s] = "connecting"]
  /\ status' = IF mountedRef THEN "error" ELSE status
  /\ promise' = [promise EXCEPT ![s] = "pending"]
  /\ log' = [log EXCEPT !.op = "other"]
  /\ UNCHANGED << cookingStage, isAgentSpeaking, mountedRef, refVars, playVars,
                  textVars, planVars, startPc, stream, inCtx, outCtx, handler,
                  thens, errors, sent >>
  /\ UNCHANGED << codecVars, pageVars >>

\* a channel error; one that precedes the opened signal fails the connect
OnError(s) ==
  /\ chan[s] \in {"connecting", "open", "closing"}
  /\ chan' = [chan EXCEPT ![s] = "errored"]
  /\ status' = IF mountedRef THEN "error" ELSE status
  /\ IF chan[s] = "connecting"
     THEN /\ promise' = [promise EXCEPT ![s] = "rejected"]
          /\ thens' = [thens EXCEPT ![s] = << >>]
          /\ errors' = errors \cup (IF HasSend(thens[s]) THEN {"send"} ELSE {})
     ELSE UNCHANGED << promise, thens, errors >>
  /\ log' = [log EXCEPT !.op = "other"]
  /\ UNCHANGED << cookingStage, isAgentSpeaking, mountedRef, refVars, playVars,
                  textVars, planVars, startPc, stream, inCtx, outCtx, handler,
                  sent >>
  /\ UNCHANGED << codecVars, pageVars >>

\* ------------------------------------------------------ processor.onaudioprocess
\* a fault: after an interruption the callback encodes the frame and drops it
MutedByInterrupt(s) ==
  /\ handler[s]
  /\ inCtx[s] = "running"
  /\ mountedRef
  /\ sent' = IF log.heard = 0 /\ promise[sessionPromiseRef] = "resolved"
             THEN Append(sent, << sessionPromiseRef, log.frames + 1 >>)
             ELSE sent
  /\ log' = Logged("frames", "frame")
  /\ UNCHANGED << uiVars, mountedRef, refVars, playVars, textVars, planVars,
                  startPc, stream, inCtx, outCtx, chan, promise, handler,
                  thens, errors >>
  /\ UNCHANGED << codecVars, pageVars >>

\* a fault: a send that fails ends the capture
CaptureStopsOnFailure(s) ==
  /\ handler[s]
  /\ inCtx[s] = "running"
  /\ mountedRef
  /\ LET f == log.frames + 1
         p == sessionPromiseRef IN
       /\ sent' = IF promise[p] = "resolved" THEN Append(sent, << p, f >>) ELSE sent
       /\ thens' = IF promise[p] = "pending"
                   THEN [thens EXCEPT ![p] = Append(@, f)] ELSE thens
       /\ \E throws \in (IF promise[p] = "resolved" THEN MayThrow(chan[p])
                          ELSE {promise[p] = "rejected"}) :
            /\ errors' = errors \cup (IF throws THEN {"send"} ELSE {})
            /\ handler' = [handler EXCEPT ![s] = ~throws]
  /\ log' = Logged("frames", "frame")
  /\ UNCHANGED << uiVars, mountedRef, refVars, playVars, textVars, planVars,
                  startPc, stream, inCtx, outCtx, chan, promise >>
  /\ UNCHANGED << codecVars, pageVars >>

\* the callback encodes the frame and hands it to then() of the promise in
\* sessionPromiseRef: on a resolved promise the send runs at once, on a
\* pending one it waits, on a rejected one it never runs and the promise
\* then() returned is rejected; no rejection is handled
CaptureFrame(s) ==
  /\ handler[s]
  /\ inCtx[s] = "running"
  /\ mountedRef                       \* if (!mountedRef.current) return
  /\ LET f == log.frames + 1
         p == sessionPromiseRef IN
       /\ sent' = IF promise[p] = "resolved" THEN Append(sent, << p, f >>) ELSE sent
       /\ thens' = IF promise[p] = "pending"
                   THEN [thens EXCEPT ![p] = Append(@, f)] ELSE thens
       /\ \E throws \in (IF promise[p] = "resolved" THEN MayThrow(chan[p])
                          ELSE {promise[p] = "rejected"}) :
            errors' = errors \cup (IF throws THEN {"send"} ELSE {})
  /\ log' = Logged("frames", "frame")
  /\ UNCHANGED << uiVars, mountedRef, refVars, playVars, textVars, planVars,
                  startPc, stream, inCtx, outCtx, chan, promise, handler >>
  /\ UNCHANGED << codecVars, pageVars >>

\* ------------------------------------------------------ channel messages
Durations == {1, 2}                  \* audioBuffer.duration, in clock units

UserLabel  == << "U", "s", "e", "r", ":", " " >>
GuideLabel == << "G", "u", "i", "d", "e", ":", " " >>
Newline    == << "\n" >>

\* `User: ${userText}\n` and `Guide: ${modelText}\n`, each only if non-empty
UserLine(t)  == IF t = << >> THEN << >> ELSE UserLabel \o t \o Newline
GuideLine(t) == IF t = << >> THEN << >> ELSE GuideLabel \o t \o Newline

\* a LiveServerMessage: the transcription texts (<< >> when absent), the
\* turnComplete flag, the audio payload (0 absent, -1 malformed, else the
\* duration of the decoded buffer) and the interrupted flag
Msg(o, i, t, a, x) == [out |-> o, in |-> i, tc |-> t, audio |-> a, intr |-> x]

Msgs ==
  { Msg(<< >>, << "a" >>, FALSE, 0, FALSE),
    Msg(<< >>, << "b", "c" >>, FALSE, 0, FALSE),
    Msg(<< "d" >>, << >>, FALSE, 0, FALSE),
    Msg(<< >>, << >>, TRUE, 0, FALSE),
    Msg(<< "d" >>, << "a" >>, TRUE, 0, FALSE),
    Msg(<< >>, << >>, FALSE, -1, FALSE),
    Msg(<< >>, << >>, FALSE, 0, TRUE),
    Msg(<< >>, << >>, FALSE, 1, TRUE),
    Msg(<< >>, << >>, FALSE, -1, TRUE) }
  \cup { Msg(<< >>, << >>, FALSE, d, FALSE) : d \in Durations }

\* the transcription deltas received so far in a turn, one list per side
Received(ds, m) ==
  [in  |-> IF m.in = << >> THEN ds.in ELSE Append(ds.in, m.in),
   out |-> IF m.out = << >> THEN ds.out ELSE Append(ds.out, m.out)]

\* a fault: the delta is put in front of the buffer
PrependDelta(buf, text) == text \o buf

\* currentInputTransRef.current += text (and the same for the output side)
AppendDelta(buf, text) == buf \o text

\* a fault: the turn replaces the transcript
ReplaceTurn(t, userText, modelText) == UserLine(userText) \o GuideLine(modelText)

\* the turnComplete branch: the new value of transcriptionRef.current
FinalizeTurn(t, userText, modelText) ==
  t \o UserLine(userText) \o GuideLine(modelText)

\* a fault: the cursor is set to the clock without the max
RebaseToNow(cursor, now) == now

\* nextStartTimeRef.current = Math.max(nextStartTimeRef.current, ctx.currentTime)
Rebase(cursor, now) == Max(cursor, now)

\* nextStartTimeRef.current += audioBuffer.duration
Advance(cursor, duration) == cursor + duration

\* a fault: the interrupted branch leaves the cursor
KeepCursor(cursor) == cursor

\* the interrupted branch: nextStartTimeRef.current = 0
ResetCursor(cursor) == 0

\* onmessage, from its entry to the await of decodeAudioData (or to its end
\* when the message carries no audio)
OnMessage(s, m) ==
  /\ chan[s] \in {"open", "closing"}
  /\ mountedRef                       \* if (!mountedRef.current) return
  /\ LET out1 == AppendDelta(currentOutputTransRef, m.out)
         in1  == AppendDelta(currentInputTransRef, m.in)
     IN  IF m.tc
         THEN /\ transcriptionRef' = FinalizeTurn(transcriptionRef, in1, out1)
              /\ currentInputTransRef' = << >>
              /\ currentOutputTransRef' = << >>
         ELSE /\ transcriptionRef' = transcriptionRef
              /\ currentInputTransRef' = in1
              /\ currentOutputTransRef' = out1
  /\ IF m.audio # 0 /\ outputContextRef # 0
     THEN /\ nextStartTimeRef' = Rebase(nextStartTimeRef, clock)
          /\ decoding' = Append(decoding,
               [sess |-> s, ctx |-> outputContextRef, audio |-> m.audio,
                intr |-> m.intr, arrival |-> clock, seq |-> log.msgs + 1,
                heard |-> log.heard])
          /\ UNCHANGED << sourcesRef, handles, isAgentSpeaking >>
     ELSE IF m.intr
     THEN /\ handles' = StopAll(handles, sourcesRef)
          /\ sourcesRef' = {}
          /\ isAgentSpeaking' = FALSE
          /\ nextStartTimeRef' = ResetCursor(nextStartTimeRef)
          /\ UNCHANGED decoding
     ELSE UNCHANGED << nextStartTimeRef, decoding, sourcesRef, handles,
                       isAgentSpeaking >>
  /\ log' = [log EXCEPT !.op = "other",
                        !.deltas = IF m.tc THEN [in |-> << >>, out |-> << >>]
                                   ELSE Received(@, m),
                        !.turn = IF m.tc THEN Received(log.deltas, m) ELSE @,
                        !.msgs = @ + 1,
                        !.heard = @ + (IF m.intr THEN 1 ELSE 0),
                        !.audio = @ + (IF m.audio # 0 THEN 1 ELSE 0),
                        !.turns = @ + (IF m.tc THEN 1 ELSE 0),
                        !.intrs = @ + (IF m.audio = 0 /\ m.intr THEN 1 ELSE 0),
                        !.rebase = @ \/ (m.audio = 0 /\ m.intr),
                        !.seen = IF m.audio # 0 /\ outputContextRef # 0
                                 THEN Max(@, clock) ELSE @]
  /\ UNCHANGED << status, cookingStage, mountedRef, refVars, clock, planVars,
                  objVars, errors, sent >>
  /\ UNCHANGED << codecVars, pageVars >>

\* a fault: a chunk that fails to decode takes the whole playback down
DecodeRejectedStopsAll ==
  /\ errors' = errors \cup {"decode"}
  /\ log' = [log EXCEPT !.op = "other"]
  /\ handles' = StopAll(handles, sourcesRef)
  /\ sourcesRef' = {}
  /\ isAgentSpeaking' = FALSE
  /\ UNCHANGED nextStartTimeRef

\* decodeAudioData rejects: the rest of the handler is skipped and the
\* promise of the async handler is rejected
DecodeRejected ==
  /\ errors' = errors \cup {"decode"}
  /\ log' = [log EXCEPT !.op = "other"]
  /\ UNCHANGED << nextStartTimeRef, sourcesRef, handles, isAgentSpeaking >>

\* onmessage, from the await of decodeAudioData to its end
OnDecoded(i) ==
  /\ i \in DOMAIN decoding
  /\ decoding' = RemoveAt(decoding, i)
  /\ LET d == decoding[i] IN
       IF d.audio < 0
       THEN DecodeRejected
       ELSE IF d.ctx # d.sess         \* source.connect(outputNode) throws:
                                      \* outputNode belongs to another context
       THEN /\ errors' = errors \cup {"connect"}
            /\ log' = [log EXCEPT !.op = "other"]
            /\ UNCHANGED << nextStartTimeRef, sourcesRef, handles,
                            isAgentSpeaking >>
       ELSE LET h == [start |-> nextStartTimeRef, dur |-> d.audio,
                      st |-> "playing", ctx |-> d.ctx, arrival |-> d.arrival,
                      seq |-> d.seq, heard |-> d.heard,
                      seen |-> log.seen, intrs |-> log.intrs,
                      first |-> log.rebase]
                hs == Append(handles, h)
                live == sourcesRef \cup {Len(hs)}
            IN  /\ errors' = errors
                /\ IF d.intr
                   THEN /\ handles' = StopAll(hs, live)
                        /\ sourcesRef' = {}
                        /\ isAgentSpeaking' = FALSE
                        /\ nextStartTimeRef' =
                             ResetCursor(Advance(nextStartTimeRef, d.audio))
                        /\ log' = [log EXCEPT !.op = "other", !.intrs = @ + 1,
                                              !.rebase = TRUE, !.seen = 0]
                   ELSE /\ handles' = hs
                        /\ sourcesRef' = live
                        /\ isAgentSpeaking' = TRUE
                        /\ nextStartTimeRef' = Advance(nextStartTimeRef, d.audio)
                        /\ log' = [log EXCEPT !.op = "other", !.rebase = FALSE,
                                              !.seen = 0]
  /\ UNCHANGED << status, cookingStage, mountedRef, refVars, clock, textVars,
                  planVars, objVars, sent >>
  /\ UNCHANGED << codecVars, pageVars >>

\* a fault: onended leaves the source in the live set
KeepSource(live, h) == live

\* sourcesRef.current.delete(source)
DeleteSource(live, h) == live \ {h}

\* a fault: onended removes the source and never clears the flag
OnEndedKeepsFlag(h) ==
  /\ h \in DOMAIN handles
  /\ \/ handles[h].st = "stopped"
     \/ /\ handles[h].st = "playing"
        /\ outCtx[handles[h].ctx] = "running"
        /\ handles[h].ctx = outputContextRef
             => clock >= handles[h].start + handles[h].dur
  /\ handles' = [handles EXCEPT ![h].st = "ended"]
  /\ sourcesRef' = DeleteSource(sourcesRef, h)
  /\ log' = [log EXCEPT !.op = "other"]
  /\ UNCHANGED << uiVars, mountedRef, refVars, nextStartTimeRef,
                  clock, decoding, textVars, planVars, objVars, errors, sent >>
  /\ UNCHANGED << codecVars, pageVars >>

\* source.onended: the playback ended by itself or after stop()
OnEnded(h) ==
  /\ h \in DOMAIN handles
  /\ \/ handles[h].st = "stopped"
     \/ /\ handles[h].st = "playing"
        /\ outCtx[handles[h].ctx] = "running"
        /\ handles[h].ctx = outputContextRef
             => clock >= handles[h].start + handles[h].dur
  /\ handles' = [handles EXCEPT ![h].st = "ended"]
  /\ sourcesRef' = DeleteSource(sourcesRef, h)
  /\ isAgentSpeaking' = IF DeleteSource(sourcesRef, h) = {}
                        THEN FALSE ELSE isAgentSpeaking
  /\ log' = [log EXCEPT !.op = "other"]
  /\ UNCHANGED << status, cookingStage, mountedRef, refVars, nextStartTimeRef,
                  clock, decoding, textVars, planVars, objVars, errors, sent >>
  /\ UNCHANGED << codecVars, pageVars >>

\* the output clock advances while its context runs
Tick ==
  /\ outputContextRef # 0
  /\ outCtx[outputContextRef] = "running"
  /\ clock' = clock + 1
  /\ log' = [log EXCEPT !.op = "other"]
  /\ UNCHANGED << uiVars, mountedRef, refVars, nextStartTimeRef, sourcesRef,
                  handles, decoding, textVars, planVars, objVars, errors, sent >>
  /\ UNCHANGED << codecVars, pageVars >>

\* --------------------------------------------------------- handleCreatePlan
\* a fault: the partial buffers are left out of the snapshot
SnapshotFinalOnly(t, userText, modelText) == t

\* finalTranscript: transcriptionRef.current, then the partial 'User: ' and
\* 'Guide: ' lines of the buffers that are not empty
Snapshot(t, userText, modelText) ==
  t \o UserLine(userText) \o GuideLine(modelText)

HandleCreatePlan ==
  /\ mountedRef
  /\ cookingStage = 1                 \* the stage that renders the button
  /\ cookingStage' = 2
  /\ chan' = IF sessionPromiseRef # 0 /\ promise[sessionPromiseRef] = "resolved"
             THEN [chan EXCEPT ![sessionPromiseRef] = SessionClose(@)] ELSE chan
  /\ thens' = IF sessionPromiseRef # 0 /\ promise[sessionPromiseRef] = "pending"
              THEN [thens EXCEPT ![sessionPromiseRef] = Append(@, 0)] ELSE thens
  /\ plans' = Append(plans,
       [pc |-> 1,
        transcript |-> Snapshot(transcriptionRef, currentInputTransRef,
                                currentOutputTransRef)])
  /\ log' = [log EXCEPT !.op = "other"]
  /\ UNCHANGED << status, isAgentSpeaking, mountedRef, refVars, playVars,
                  textVars, planned, startPc, stream, inCtx, outCtx, promise,
                  handler, errors, sent >>
  /\ UNCHANGED << codecVars, pageVars >>

\* the 2500 ms timer
PlanCooked(i) ==
  /\ i \in DOMAIN plans
  /\ plans[i].pc = 1
  /\ plans' = [plans EXCEPT ![i].pc = 2]
  /\ cookingStage' = IF mountedRef THEN 3 ELSE cookingStage
  /\ log' = [log EXCEPT !.op = "other"]
  /\ UNCHANGED << status, isAgentSpeaking, mountedRef, refVars, playVars,
                  textVars, planned, objVars, errors, sent >>
  /\ UNCHANGED << codecVars, pageVars >>

\* the 1500 ms timer: onCreatePlan(finalTranscript); App.handlePlanFromLive
\* leaves the LIVE mode, which unmounts the component
PlanServed(i) ==
  /\ i \in DOMAIN plans
  /\ plans[i].pc = 2
  /\ plans' = RemoveAt(plans, i)
  /\ planned' = Append(planned, plans[i].transcript)
  /\ IF mountedRef
     THEN CleanupBody
     ELSE /\ log' = [log EXCEPT !.op = "other"]
          /\ UNCHANGED << uiVars, mountedRef, refVars, playVars, textVars,
                          objVars, errors, sent >>
  /\ UNCHANGED << codecVars, pageVars >>

\* --------------------------------------------------------------------- Next
\* the messages of a lifecycle run: one audio chunk, one interruption
LifeMsgs == { m \in Msgs : m.in = << >> /\ m.out = << >> /\ ~m.tc
                           /\ (m.audio = 1 \/ m.intr) /\ m.audio >= 0 }

\* the whole life of a component instance, with a short message stream; the
\* output clock is advanced in the playback runs only
Next ==
  \/ StartSession
  \/ \E s \in Sessions : MicGranted(s)
  \/ \E s \in Sessions : MicDenied(s)
  \/ \E s \in Sessions : SetupFails(s)
  \/ log.cleanups < MaxCleanups /\ Cleanup
  \/ \E s \in Sessions : OnOpen(s)
  \/ \E s \in Sessions : ResolveSession(s)
  \/ \E s \in Sessions : OnClose(s)
  \/ \E s \in Sessions : OnError(s)
  \/ log.frames < MaxFrames /\ \E s \in Sessions : CaptureFrame(s)
  \/ log.msgs < MaxLifeMsgs /\ \E s \in Sessions, m \in LifeMsgs : OnMessage(s, m)
  \/ \E i \in DOMAIN decoding : OnDecoded(i)
  \/ \E h \in DOMAIN handles : OnEnded(h)
  \/ HandleCreatePlan
  \/ \E i \in DOMAIN plans : PlanCooked(i)
  \/ \E i \in DOMAIN plans : PlanServed(i)

Spec == Init /\ [][Next]_vars

\* ------------------------------------------- the stream of a live session
\* the state after startSession, the microphone grant, the opened signal and
\* the resolution of the connect promise
Connected ==
  /\ status = "connected"
  /\ cookingStage = 1
  /\ isAgentSpeaking = FALSE
  /\ mountedRef = TRUE
  /\ streamRef = 1
  /\ inputContextRef = 1
  /\ outputContextRef = 1
  /\ sessionPromiseRef = 1
  /\ nextStartTimeRef = 0
  /\ sourcesRef = {}
  /\ transcriptionRef = << >>
  /\ currentInputTransRef = << >>
  /\ currentOutputTransRef = << >>
  /\ startPc = [s \in Sessions |-> IF s = 1 THEN "done" ELSE "none"]
  /\ stream = [s \in Sessions |-> IF s = 1 THEN "live" ELSE "none"]
  /\ inCtx = [s \in Sessions |-> IF s = 1 THEN "running" ELSE "none"]
  /\ outCtx = [s \in Sessions |-> IF s = 1 THEN "running" ELSE "none"]
  /\ chan = [s \in Sessions |-> IF s = 1 THEN "open" ELSE "none"]
  /\ promise = [s \in Sessions |-> IF s = 1 THEN "resolved" ELSE "none"]
  /\ thens = [s \in Sessions |-> << >>]
  /\ handler = [s \in Sessions |-> s = 1]
  /\ clock = 0
  /\ handles = << >>
  /\ decoding = << >>
  /\ plans = << >>
  /\ planned = << >>
  /\ errors = {}
  /\ sent = << >>
  /\ log = [op |-> "other", starts |-> 1, cleanups |-> 0,
            frames |-> 0, msgs |-> 0, audio |-> 0, intrs |-> 0, turns |-> 0,
            opens |-> 1, early |-> FALSE, rebase |-> FALSE, seen |-> 0, heard |-> 0,
            deltas |-> [in |-> << >>, out |-> << >>],
            turn |-> [in |-> << >>, out |-> << >>]]
  /\ CodecIdle
  /\ PagesIdle

\* the messages of a playback run: audio chunks and interruptions
PlayMsgs == { m \in Msgs : m.in = << >> /\ m.out = << >> /\ ~m.tc }

\* the messages of a transcript run: transcription deltas and turn ends
TextMsgs == { m \in Msgs : m.audio = 0 /\ ~m.intr }

\* a connected session receiving audio and interruptions while the output
\* clock runs and the microphone is captured, until the component unmounts
NextPlay ==
  \/ log.msgs < MaxMsgs /\ \E s \in Sessions, m \in PlayMsgs : OnMessage(s, m)
  \/ \E i \in DOMAIN decoding : OnDecoded(i)
  \/ \E h \in DOMAIN handles : OnEnded(h)
  \/ clock < MaxClock /\ Tick
  \/ log.frames < MaxFrames /\ \E s \in Sessions : CaptureFrame(s)
  \/ log.cleanups = 0 /\ Cleanup

SpecPlay == Connected /\ [][NextPlay]_vars

\* a connected session receiving transcription, until the user asks for the
\* plan or the component unmounts
NextText ==
  \/ log.msgs < MaxTextMsgs /\ \E s \in Sessions, m \in TextMsgs : OnMessage(s, m)
  \/ log.cleanups = 0 /\ Cleanup
  \/ HandleCreatePlan
  \/ \E i \in DOMAIN plans : PlanCooked(i)
  \/ \E i \in DOMAIN plans : PlanServed(i)

SpecText == Connected /\ [][NextText]_vars

\* ---------------------------------------------------------------- resources
\* a resource the invocation s of startSession acquired is still held
Held(s) ==
  \/ stream[s] = "live"
  \/ inCtx[s] = "running"
  \/ outCtx[s] = "running"
  \/ chan[s] \in {"connecting", "open"}

AllReleased == \A s \in Sessions : ~Held(s)

\* nothing is in progress: every startSession has returned, every connect
\* promise is settled, no channel is between two signals, no decode and no
\* timer is pending; only the user or the server can make the next move
AtRest ==
  /\ \A s \in Sessions : startPc[s] # "awaitMic"
  /\ \A s \in Sessions : promise[s] # "pending"
  /\ \A s \in Sessions : chan[s] \notin {"connecting", "closing", "errored"}
  /\ decoding = << >>
  /\ plans = << >>

\* ------------------------------------------------------------------- claims
\* C1: teardown is idempotent. A cleanup() that immediately follows a
\* cleanup() raises no error and leaves the live playback set, the playback
\* handles, both audio contexts, the microphone tracks and the channel as the
\* first call left them.
C1_SecondCleanupHarmless ==
  [][(log.op = "cleanup" /\ log.cleanups' > log.cleanups)
       => /\ errors' = errors
          /\ sourcesRef' = sourcesRef
          /\ handles' = handles
          /\ inCtx' = inCtx
          /\ outCtx' = outCtx
          /\ stream' = stream
          /\ chan' = chan
    ]_vars

\* C2: a single cleanup() that ran before the session ever was connected
\* produces no error and, once the operations in progress have finished,
\* leaves no microphone track live, no audio context open and no channel open.
C2_EarlyCleanupReleases ==
  (log.early /\ log.cleanups = 1 /\ AtRest) => (errors = {} /\ AllReleased)

\* C3: once status is 'error' or 'disconnected' the microphone stream, both
\* audio contexts and the channel do not stay held while the component stays
\* mounted: when nothing is in progress any more, they have all been released.
C3_ReleasedAfterExit ==
  (mountedRef /\ status \in {"error", "disconnected"} /\ AtRest) => AllReleased

\* C4: 'disconnected' and 'error' are terminal: no step changes status once
\* it has one of these values.
C4_TerminalStatus ==
  [][(status \in {"disconnected", "error"}) => (status' = status)]_vars

\* C5: status becomes 'connected' only by the opened signal while it is
\* 'connecting'; a frame is captured only after the opened signal, and every
\* captured frame is passed to the send primitive of the channel whose opened
\* signal installed the capture callback, at once or when its promise resolves.
C5_ConnectedAndForwarding ==
  [][/\ (status' = "connected" /\ status # "connected")
          => (status = "connecting" /\ log.opens' > log.opens)
     /\ log.frames' > log.frames
          => /\ log.opens > 0
             /\ \E s \in Sessions :
                  /\ handler[s]
                  /\ \/ sent' = Append(sent, << s, log.frames' >>)
                     \/ thens' = [thens EXCEPT ![s] = Append(@, log.frames')]
    ]_vars

\* the scheduled end of a playback handle
End(h) == h.start + h.dur

C7_InterruptRebases ==
  /\ log.rebase => sourcesRef = {}
  /\ \A h \in DOMAIN handles :
       handles[h].first => handles[h].start = handles[h].arrival

\* C8 as stated: the playback cursor never decreases, except when an
\* Interrupted message is handled, which makes it equal to the output clock.
C8_ResetToNow ==
  [][IF log.intrs' > log.intrs
     THEN nextStartTimeRef' = clock'
     ELSE nextStartTimeRef' >= nextStartTimeRef]_vars

\* C8: the playback cursor never decreases, except when an Interrupted
\* message is handled, which resets it to 0.
C8_ResetToZero ==
  [][IF log.intrs' > log.intrs
     THEN nextStartTimeRef' = 0
     ELSE nextStartTimeRef' >= nextStartTimeRef]_vars

\* an interruption stopped a playing chunk after the output clock had advanced
C8_Witness ==
  /\ mountedRef
  /\ log.rebase
  /\ clock > 0
  /\ nextStartTimeRef = 0
  /\ \E h \in DOMAIN handles : handles[h].st = "stopped" /\ End(handles[h]) > 0

\* the concatenation of a list of texts
RECURSIVE Flatten(_)
Flatten(ds) == IF ds = << >> THEN << >> ELSE Head(ds) \o Flatten(Tail(ds))

\* C9: a TurnComplete appends to the finalized transcript exactly one turn:
\* a 'User: ' line with the input deltas of the turn concatenated in arrival
\* order, then a 'Guide: ' line with the output deltas concatenated in arrival
\* order, a side without text being omitted (so nothing is appended when both
\* are empty), and it leaves both in-progress buffers empty.
C9_TurnFinalized ==
  [][log.turns' > log.turns
       => LET u == Flatten(log.turn'.in)
              g == Flatten(log.turn'.out)
          IN  /\ transcriptionRef' =
                   transcriptionRef
                     \o (IF u = << >> THEN << >>
                         ELSE << "U", "s", "e", "r", ":", " " >> \o u \o << "\n" >>)
                     \o (IF g = << >> THEN << >>
                         ELSE << "G", "u", "i", "d", "e", ":", " " >> \o g
                                \o << "\n" >>)
              /\ currentInputTransRef' = << >>
              /\ currentOutputTransRef' = << >>
    ]_vars

\* a turn made of several input deltas and an output delta has been finalized
C9_Witness ==
  /\ log.turns > 0
  /\ Len(log.turn.in) >= 2
  /\ log.turn.out # << >>
  /\ transcriptionRef # << >>
  /\ currentInputTransRef = << >>
  /\ currentOutputTransRef = << >>

\* C10: the finalized transcript is append-only and changes only when a
\* TurnComplete is handled: in every step its old value is a prefix of its new
\* value, and a step that handles no TurnComplete leaves it as it is.
C10_AppendOnly ==
  [][/\ IsPrefix(transcriptionRef, transcriptionRef')
     /\ (transcriptionRef' # transcriptionRef) => (log.turns' > log.turns)
    ]_vars

\* a second turn has been appended and a later delta is in its buffer
C10_Witness ==
  /\ log.turns >= 2
  /\ Len(transcriptionRef) > Len(UserLine(<< "a" >>) \o GuideLine(<< "d" >>))
  /\ currentInputTransRef # << >>

\* C11: the snapshot handleCreatePlan takes is the finalized transcript, then
\* a 'User: ' line with the in-progress user buffer if it is not empty, then
\* a 'Guide: ' line with the in-progress agent buffer if it is not empty;
\* taking it changes neither the transcript nor the buffers, and the value
\* later passed to onCreatePlan is that snapshot.
C11_Snapshot ==
  [][/\ (Len(plans') > Len(plans))
          => /\ plans'[Len(plans')].transcript =
                  transcriptionRef
                    \o (IF currentInputTransRef = << >> THEN << >>
                        ELSE << "U", "s", "e", "r", ":", " " >>
                               \o currentInputTransRef \o << "\n" >>)
                    \o (IF currentOutputTransRef = << >> THEN << >>
                        ELSE << "G", "u", "i", "d", "e", ":", " " >>
                               \o currentOutputTransRef \o << "\n" >>)
             /\ UNCHANGED textVars
     /\ (Len(planned') > Len(planned))
          => \E i \in DOMAIN plans :
               /\ plans[i].pc = 2
               /\ planned' = Append(planned, plans[i].transcript)
    ]_vars

\* onCreatePlan received a transcript made of a finalized turn and of a
\* partial user line
C11_Witness ==
  /\ planned # << >>
  /\ transcriptionRef # << >>
  /\ Len(planned[1]) > Len(transcriptionRef)
  /\ IsPrefix(transcriptionRef, planned[1])

\* ------------------------------------------------- the end-to-end scenario
\* the messages of the scenario: well-formed audio, transcription, turn end
ScenarioMsgs == { m \in Msgs : ~m.intr /\ m.audio >= 0 }

\* one audio message and one TurnComplete, the transcription before it
InScenario(m) ==
  /\ m.audio # 0 => log.audio = 0
  /\ m.audio = 0 => log.turns = 0
  /\ (m.audio = 0 /\ ~m.tc) => log.msgs - log.audio < ScenarioDeltas

\* the output clock runs while it is observed and while a source is playing
ClockRuns ==
  /\ clock < MaxClock \/ \E h \in sourcesRef : End(handles[h]) > clock
  /\ Tick

\* one start, the microphone granted, the channel opened, the frames captured
\* and the messages received in any order, the chunk played to its end
NextScenario ==
  \/ log.starts = 0 /\ StartSession
  \/ \E s \in Sessions : MicGranted(s)
  \/ \E s \in Sessions : OnOpen(s)
  \/ \E s \in Sessions : ResolveSession(s)
  \/ log.frames < ScenarioFrames /\ \E s \in Sessions : CaptureFrame(s)
  \/ \E s \in Sessions, m \in ScenarioMsgs : InScenario(m) /\ OnMessage(s, m)
  \/ \E i \in DOMAIN decoding : OnDecoded(i)
  \/ \E h \in DOMAIN handles : OnEnded(h)
  \/ ClockRuns

\* the audio hardware advances the clock of a running context and the event
\* loop delivers the ended event of a source that has played out
SpecScenario ==
  /\ Init
  /\ [][NextScenario]_vars
  /\ WF_vars(ClockRuns)
  /\ WF_vars(\E h \in DOMAIN handles : OnEnded(h))

\* the events of the scenario have all been handled
ScenarioDone ==
  /\ log.frames = ScenarioFrames
  /\ Len(sent) = ScenarioFrames
  /\ log.audio = 1
  /\ log.turns = 1
  /\ decoding = << >>

\* the lines of one turn
TurnLines(u, g) ==
  (IF u = << >> THEN << >>
   ELSE << "U", "s", "e", "r", ":", " " >> \o u \o << "\n" >>)
    \o (IF g = << >> THEN << >>
        ELSE << "G", "u", "i", "d", "e", ":", " " >> \o g \o << "\n" >>)

\* status, the playback handles and the live set at the end of the scenario
ScenarioPlayback ==
  /\ status = "connected"
  /\ Len(handles) = 1
  /\ handles[1].st \in {"playing", "ended"}
  /\ sourcesRef = IF handles[1].st = "ended" THEN {} ELSE {1}

\* C12 as stated: at the end of the scenario status is 'connected', exactly
\* one finalized turn exists and exactly one playback handle was scheduled.
C12_OneTurnAlways ==
  ScenarioDone => (ScenarioPlayback /\ transcriptionRef # << >>)

\* C12: at the end of the scenario status is 'connected', exactly one
\* playback handle was scheduled, and the finalized transcript holds exactly
\* one turn if transcription text arrived before the TurnComplete and no turn
\* if none did; the handle later ends and is then out of the live set.
C12_EndToEnd ==
  /\ [](ScenarioDone =>
          /\ ScenarioPlayback
          /\ transcriptionRef =
               TurnLines(Flatten(log.turn.in), Flatten(log.turn.out)))
  /\ ScenarioDone ~> (/\ handles # << >>
                      /\ \A h \in DOMAIN handles : handles[h].st = "ended"
                      /\ sourcesRef = {})

\* the scenario ran with transcription, and the chunk has played out
C12_Witness ==
  /\ ScenarioDone
  /\ transcriptionRef # << >>
  /\ handles[1].st = "ended"
  /\ sourcesRef = {}
  /\ clock > 0

\* ------------------------------------------------------ frame forwarding
\* the capture callbacks of up to MaxSessions starts, interleaved with the
\* opening, the failure and the resolution of their channels and with the
\* unmount of the component
NextSend ==
  \/ StartSession
  \/ \E s \in Sessions : MicGranted(s)
  \/ \E s \in Sessions : OnOpen(s)
  \/ \E s \in Sessions : OnError(s)
  \/ \E s \in Sessions : ResolveSession(s)
  \/ log.frames < MaxSendFrames /\ \E s \in Sessions : CaptureFrame(s)
  \/ log.cleanups = 0 /\ Cleanup

SpecSend == Init /\ [][NextSend]_vars

\* C13: the frames handed to the send primitive of a channel are handed to
\* it in the order in which they were captured.
C13_CaptureOrder ==
  \A i, j \in DOMAIN sent :
    (i < j /\ sent[i][1] = sent[j][1]) => sent[i][2] < sent[j][2]

\* two frames captured before the connect promise resolved, sent after it
C13_Witness ==
  \E s \in Sessions :
    /\ promise[s] = "resolved"
    /\ Len(sent) >= 2
    /\ sent[1] = << s, 1 >>
    /\ sent[2] = << s, 2 >>
    /\ log.op = "other"

\* C14: playback chunks are scheduled in arrival order. Of two audio messages
\* delivered one after the other with no Interrupted message delivered with
\* the first or between them, the later one starts no earlier than the end
\* of the earlier one, also when their handlers overlap at the decode.
C14_ArrivalOrder ==
  \A a, b \in DOMAIN handles :
    (handles[a].seq < handles[b].seq /\ handles[a].heard = handles[b].heard)
      => handles[b].start >= End(handles[a])

\* C15: handling an Interrupted message changes neither status nor the
\* finalized transcript nor the in-progress buffers nor the microphone stream
\* nor the forwarding of frames (the capture callback, the session promise and
\* the frames already passed on); while the component stays mounted the
\* capture keeps running afterwards and every frame captured after the
\* interruption is passed to the send primitive.
C15_InterruptOnlyPlayback ==
  /\ [][/\ (log.heard' > log.heard \/ log.intrs' > log.intrs)
             => UNCHANGED << status, textVars, streamRef, stream,
                             inputContextRef, inCtx, handler,
                             sessionPromiseRef, promise, thens, chan, sent >>
        /\ (log.heard > 0 /\ log.frames' > log.frames)
             => sent' = Append(sent, << sessionPromiseRef, log.frames' >>)
       ]_vars
  /\ []((log.heard > 0 /\ mountedRef)
          => /\ status = "connected"
             /\ handler[streamRef]
             /\ stream[streamRef] = "live"
             /\ inCtx[inputContextRef] = "running")

\* an interruption stopped a playing chunk and the step just taken is a
\* capture callback that passed its frame on
C15_Witness ==
  /\ log.intrs > 0
  /\ \E h \in DOMAIN handles : handles[h].st = "stopped"
  /\ mountedRef
  /\ status = "connected"
  /\ stream[streamRef] = "live"
  /\ log.op = "frame"
  /\ sent # << >>

\* C16: once cleanup() has run, an operation that was in flight (a decode, a
\* send waiting on the session promise) ends silently: no step after cleanup
\* creates or starts a playback handle or adds one to the live set, none
\* re-acquires a stream or a context, and none adds an unhandled failure.
C16_SilentAfterCleanup ==
  [][(log.cleanups > 0)
       => /\ Len(handles') = Len(handles)
          /\ sourcesRef' \subseteq sourcesRef
          /\ \A s \in Sessions : ~Held(s) => ~Held(s)'
          /\ errors' \subseteq errors
    ]_vars

\* C17: a chunk whose decode fails is dropped alone. The step on which the
\* decode fails leaves status, the live set, the playback handles, the
\* finalized transcript and the in-progress buffers as they were; after a
\* failure a mounted component still accepts messages, and a well-formed
\* chunk whose decode completes after a failure is scheduled: it gets a
\* handle starting at the cursor and, unless its own message interrupts,
\* joins the live set.
C17_BadChunkDropped ==
  /\ [][/\ (\E i \in DOMAIN decoding :
              decoding[i].audio < 0 /\ decoding' = RemoveAt(decoding, i))
             => UNCHANGED << status, sourcesRef, handles, textVars >>
        /\ ("decode" \in errors /\
            \E i \in DOMAIN decoding :
              /\ decoding[i].audio > 0
              /\ decoding[i].ctx = decoding[i].sess
              /\ decoding' = RemoveAt(decoding, i))
             => /\ Len(handles') = Len(handles) + 1
                /\ handles'[Len(handles')].start = nextStartTimeRef
                /\ \E i \in DOMAIN decoding :
                     /\ decoding' = RemoveAt(decoding, i)
                     /\ handles'[Len(handles')].dur = decoding[i].audio
                     /\ decoding[i].intr \/ Len(handles') \in sourcesRef'
       ]_vars
  /\ []("decode" \in errors => status = "connected")

\* a chunk failed to decode and the chunk that arrived after it is playing
C17_Witness ==
  /\ "decode" \in errors
  /\ status = "connected"
  /\ \E h \in sourcesRef :
       /\ handles[h].st = "playing"
       /\ handles[h].seq = 2

\* C18: a send that fails is swallowed. No capture callback, whether its
\* send succeeds, waits or fails, changes status or stops the capture (the
\* callback, the input context, the stream), and neither does the step on
\* which waiting sends run or fail as the connect promise resolves; once a
\* send has failed, a frame captured while the current session promise is
\* resolved is still encoded and passed to sendRealtimeInput.
C18_SendFailureSwallowed ==
  [][/\ (log.frames' > log.frames)
          => UNCHANGED << status, handler, inCtx, inputContextRef, stream,
                          streamRef, sessionPromiseRef, promise, chan >>
     /\ (\E s \in Sessions : promise[s] = "pending" /\ promise'[s] = "resolved")
          => UNCHANGED << status, handler, inCtx, inputContextRef, stream,
                          streamRef, sessionPromiseRef >>
     /\ ("send" \in errors /\ log.frames' > log.frames /\
         promise[sessionPromiseRef] = "resolved")
          => sent' = Append(sent, << sessionPromiseRef, log.frames' >>)
    ]_vars

\* a send failed earlier, and the step just taken is a capture callback whose
\* frame went out on an open channel
C18_Witness ==
  /\ "send" \in errors
  /\ log.op = "frame"
  /\ sessionPromiseRef # 0
  /\ chan[sessionPromiseRef] = "open"
  /\ sent # << >>
  /\ sent[Len(sent)] = << sessionPromiseRef, log.frames >>

\* ------------------------------------------------------------------ starts
\* up to MaxSessions start requests, each granted or denied the microphone,
\* with the opening, the failure and the close of their channels; the
\* component is unmounted at most once
NextStarts ==
  \/ StartSession
  \/ \E s \in Sessions : MicGranted(s)
  \/ \E s \in Sessions : MicDenied(s)
  \/ \E s \in Sessions : SetupFails(s)
  \/ \E s \in Sessions : OnOpen(s)
  \/ \E s \in Sessions : ResolveSession(s)
  \/ \E s \in Sessions : OnClose(s)
  \/ \E s \in Sessions : OnError(s)
  \/ log.cleanups = 0 /\ Cleanup

SpecStarts == Init /\ [][NextStarts]_vars

\* C19: a start whose microphone request fails sets status to 'error' on the
\* failing step, and for that start no stream is held, no audio context is
\* created and no connect is made, then or later; the failure starts nothing
\* again: a start is pending at the microphone request only through a step
\* that is itself a start request.
C19_MicFailure ==
  /\ [](\A s \in Sessions :
          startPc[s] = "failed"
            => /\ stream[s] = "none"
               /\ inCtx[s] = "none"
               /\ outCtx[s] = "none"
               /\ chan[s] = "none"
               /\ promise[s] = "none"
               /\ ~handler[s])
  /\ [][/\ (\E s \in Sessions : startPc[s] # "failed" /\ startPc'[s] = "failed")
             => /\ status' = "error"
                /\ log.starts' = log.starts
                /\ \A t \in Sessions :
                     startPc'[t] = "awaitMic" => startPc[t] = "awaitMic"
        /\ (\E s \in Sessions : startPc[s] = "failed")
             => \A t \in Sessions :
                  (startPc'[t] = "awaitMic" /\ startPc[t] # "awaitMic")
                    => log.starts' = log.starts + 1
       ]_vars

\* the microphone request of the first start has failed
C19_Witness ==
  /\ startPc[1] = "failed"
  /\ status = "error"
  /\ chan[1] = "none"
  /\ outCtx[1] = "none"
  /\ log.starts = 1

\* ---------------------------------------------------------- channel events
\* the events of the channel of a connected session: messages of every kind
\* with their decode completions, the closed and the error event; the
\* component is unmounted at most once
NextEvents ==
  \/ log.msgs < MaxMsgs /\ \E s \in Sessions, m \in Msgs : OnMessage(s, m)
  \/ \E i \in DOMAIN decoding : OnDecoded(i)
  \/ \E s \in Sessions : OnClose(s)
  \/ \E s \in Sessions : OnError(s)
  \/ log.cleanups = 0 /\ Cleanup

SpecEvents == Connected /\ [][NextEvents]_vars

\* C20: while the component is mounted, the step of a channel's closed event
\* ends with status 'disconnected' and the step of a channel's error event
\* with status 'error'; no step that handles a message (either half of the
\* handler, whatever the message carries) changes status.
C20_ChannelEvents ==
  [][/\ (mountedRef /\ \E s \in Sessions : chan[s] # "closed" /\ chan'[s] = "closed")
          => status' = "disconnected"
     /\ (mountedRef /\ \E s \in Sessions : chan[s] # "errored" /\ chan'[s] = "errored")
          => status' = "error"
     /\ (log.msgs' > log.msgs \/ Len(decoding') < Len(decoding))
          => status' = status
    ]_vars

\* mounted, a message has been handled, and the channel that opened has
\* closed
C20_Witness ==
  /\ mountedRef
  /\ log.msgs > 0
  /\ log.opens > 0
  /\ status = "disconnected"
  /\ \E s \in Sessions : chan[s] = "closed"

\* C21: exclusive ownership. At every moment at most one stream is live, at
\* most one input context and one output context are running and at most one
\* channel is connecting, open or closing, and each of them is the one its
\* ref names: a repeated startSession leaves nothing live and unreferenced.
C21_ExclusiveOwnership ==
  \A s \in Sessions :
    /\ stream[s] = "live" => streamRef = s
    /\ inCtx[s] = "running" => inputContextRef = s
    /\ outCtx[s] = "running" => outputContextRef = s
    /\ chan[s] \in {"connecting", "open", "closing"} => sessionPromiseRef = s

\* ------------------------------------------------------- playback to its end
\* a connected session receiving audio and interruptions; the audio hardware
\* advances the clock while a source is playing and the event loop delivers
\* the ended event of every source that has played out or was stopped
NextAgent ==
  \/ log.msgs < MaxMsgs /\ \E s \in Sessions, m \in PlayMsgs : OnMessage(s, m)
  \/ \E i \in DOMAIN decoding : OnDecoded(i)
  \/ \E h \in DOMAIN handles : OnEnded(h)
  \/ ClockRuns
  \/ log.cleanups = 0 /\ Cleanup

SpecAgent ==
  /\ Connected
  /\ [][NextAgent]_vars
  /\ WF_vars(ClockRuns)
  /\ WF_vars(\E h \in DOMAIN handles : OnEnded(h))

\* no message is outstanding and no decode is in flight
NoMoreAudio == log.msgs = MaxMsgs /\ decoding = << >>

\* C22: a playback handle that ends by itself is removed from the live set
\* on that step, and the agent-speaking flag is false after the step if the
\* live set is then empty; once no further audio arrives, a mounted
\* component eventually shows the agent as not speaking, with every chunk of
\* the live set played out.
C22_AgentFinished ==
  /\ [][\A h \in DOMAIN handles :
          (handles[h].st = "playing" /\ handles'[h].st = "ended")
            => /\ h \notin sourcesRef'
               /\ sourcesRef' = {} => ~isAgentSpeaking'
       ]_vars
  /\ NoMoreAudio ~> (~mountedRef \/ (~isAgentSpeaking /\ sourcesRef = {}))

\* two chunks were played to their ends in a mounted component and the flag
\* is down
C22_Witness ==
  /\ mountedRef
  /\ NoMoreAudio
  /\ Len(handles) = 2
  /\ \A h \in DOMAIN handles : handles[h].st = "ended" /\ clock >= End(handles[h])
  /\ log.intrs = 0
  /\ ~isAgentSpeaking

\* C23: the live set holds exactly the handles that are scheduled or playing:
\* a handle is in it from the step that starts it, and no handle that has
\* ended or was stopped (by an interruption or by cleanup) is a member.
C23_LiveSetIsPlaying ==
  sourcesRef = { h \in DOMAIN handles : handles[h].st = "playing" }

\* one chunk has ended and left the set, a later one is playing in it
C23_Witness ==
  /\ Len(handles) = 2
  /\ handles[1].st = "ended"
  /\ handles[2].st = "playing"
  /\ sourcesRef = {2}

\* ------------------------------------------------------- transport encoding
\* base64 as the standard defines it: three bytes make four characters of a
\* 64-character alphabet, a final group of one or two bytes makes two or
\* three characters and is padded with '=' to four
Alphabet ==
  << "A", "B", "C", "D", "E", "F", "G", "H", "I", "J", "K", "L", "M",
     "N", "O", "P", "Q", "R", "S", "T", "U", "V", "W", "X", "Y", "Z",
     "a", "b", "c", "d", "e", "f", "g", "h", "i", "j", "k", "l", "m",
     "n", "o", "p", "q", "r", "s", "t", "u", "v", "w", "x", "y", "z",
     "0", "1", "2", "3", "4", "5", "6", "7", "8", "9", "+", "/" >>

Pad == "="

\* the character of a 6-bit value and the 6-bit value of a character
Char(v) == Alphabet[v + 1]
Value(c) == CHOOSE v \in 0..63 : Alphabet[v + 1] = c

\* a fault: a final group of fewer than three bytes is left out
EncodeTailDropped(bs) == << >>

\* the characters of a final group of one or two bytes
EncodeTail(bs) ==
  IF Len(bs) = 1
  THEN << Char(bs[1] \div 4), Char((bs[1] % 4) * 16), Pad, Pad >>
  ELSE << Char(bs[1] \div 4),
          Char((bs[1] % 4) * 16 + bs[2] \div 16),
          Char((bs[2] % 16) * 4), Pad >>

RECURSIVE encodeBase64(_)
encodeBase64(bs) ==
  IF bs = << >> THEN << >>
  ELSE IF Len(bs) < 3 THEN EncodeTail(bs)
  ELSE << Char(bs[1] \div 4),
          Char((bs[1] % 4) * 16 + bs[2] \div 16),
          Char((bs[2] % 16) * 4 + bs[3] \div 64),
          Char(bs[3] % 64) >> \o encodeBase64(SubSeq(bs, 4, Len(bs)))

\* the bytes of one group of four characters
DecodeGroup(g) ==
  LET b1 == Value(g[1]) * 4 + Value(g[2]) \div 16 IN
    IF g[3] = Pad THEN << b1 >>
    ELSE LET b2 == (Value(g[2]) % 16) * 16 + Value(g[3]) \div 4 IN
           IF g[4] = Pad THEN << b1, b2 >>
           ELSE << b1, b2, (Value(g[3]) % 4) * 64 + Value(g[4]) >>

RECURSIVE decodeBase64(_)
decodeBase64(t) ==
  IF Len(t) < 4 THEN << >>
  ELSE DecodeGroup(SubSeq(t, 1, 4)) \o decodeBase64(SubSeq(t, 5, Len(t)))

\* byte values whose bits exercise every position of a group
ByteSamples == {0, 90, 165, 255}

\* the buffers of 16-bit samples: byte sequences of even length
RECURSIVE SeqsOfLen(_, _)
SeqsOfLen(S, n) ==
  IF n = 0 THEN { << >> }
  ELSE { Append(q, x) : q \in SeqsOfLen(S, n - 1), x \in S }

\* the buffers of up to n samples over the byte samples, and every buffer of
\* one sample
Pcm16Buffers(n) ==
  SeqsOfLen(0..255, 2)
    \cup UNION { SeqsOfLen(ByteSamples, 2 * k) : k \in 0..n }

Encode ==
  /\ codecPc = "input"
  /\ base64Data' = encodeBase64(pcm16)
  /\ codecPc' = "encoded"
  /\ UNCHANGED << pcm16, decoded >>
  /\ UNCHANGED << liveVars, pageVars >>

Decode ==
  /\ codecPc = "encoded"
  /\ decoded' = decodeBase64(base64Data)
  /\ codecPc' = "decoded"
  /\ UNCHANGED << pcm16, base64Data >>
  /\ UNCHANGED << liveVars, pageVars >>

InitCodec ==
  /\ Mounted
  /\ PagesIdle
  /\ pcm16 \in Pcm16Buffers(MaxPairs)
  /\ base64Data = << >>
  /\ decoded = << >>
  /\ codecPc = "input"

NextCodec == Encode \/ Decode

SpecCodec == InitCodec /\ [][NextCodec]_vars

\* C24: transport round trip. Decoding the encoding of a byte sequence of
\* even length gives the sequence back; the text in between is made of whole
\* groups of four characters.
C24_RoundTrip ==
  /\ codecPc \in {"encoded", "decoded"} => Len(base64Data) % 4 = 0
  /\ codecPc = "decoded" => decoded = pcm16

\* the round trip of a buffer of two samples, which ends in a group of one
\* byte and is padded twice
C24_Witness ==
  /\ codecPc = "decoded"
  /\ Len(pcm16) = 4
  /\ pcm16[4] = 165
  /\ base64Data[Len(base64Data)] = Pad
  /\ base64Data[Len(base64Data) - 1] = Pad
  /\ decoded = pcm16

\* C25: no automatic reconnect. A channel is connected only by the step of a
\* start request that has just been granted the microphone, once per start
\* request; the step of a closed or an error event connects nothing and
\* begins no start.
C25_NoReconnect ==
  /\ [](\A s \in Sessions :
          chan[s] # "none" => (s <= log.starts /\ startPc[s] = "done"))
  /\ [][/\ \A t \in Sessions :
             (chan'[t] = "connecting" /\ chan[t] # "connecting")
               => /\ chan[t] = "none"
                  /\ startPc[t] = "awaitMic"
                  /\ startPc'[t] = "done"
        /\ (\E s \in Sessions :
              chan'[s] \in {"closed", "errored"} /\ chan'[s] # chan[s])
             => /\ startPc' = startPc
                /\ log.starts' = log.starts
                /\ sessionPromiseRef' = sessionPromiseRef
       ]_vars

\* the only start request was connected, its channel opened and then failed
\* and closed, and nothing is connecting or open
C25_Witness ==
  /\ log.starts = 1
  /\ log.opens = 1
  /\ chan[1] = "closed"
  /\ status = "disconnected"
  /\ \A s \in Sessions : chan[s] \notin {"connecting", "open"}

\* C26: every Interrupted signal received while mounted is applied. Once the
\* handlers of all messages have run to their ends, as many interruptions
\* have been applied (live set emptied, cursor reset) as Interrupted
\* messages were received, whatever else those messages carried.
C26_EveryInterruptApplied ==
  decoding = << >> => log.intrs = log.heard

\* C27: fresh state per session. When a start request goes on to create its
\* contexts and connect its channel on a component that has already handled
\* messages of an earlier session, the playback cursor is 0, the live set is
\* empty and the finalized transcript and both in-progress buffers are empty
\* as the new session begins.
C27_FreshSession ==
  [][((\E s \in Sessions : startPc[s] = "awaitMic" /\ startPc'[s] = "done")
        /\ log.msgs > 0)
       => /\ nextStartTimeRef' = 0
          /\ sourcesRef' = {}
          /\ transcriptionRef' = << >>
          /\ currentInputTransRef' = << >>
          /\ currentOutputTransRef' = << >>
    ]_vars

\* C28: while the component is mounted, after every callback the
\* agent-speaking flag is true exactly when the live set is not empty.
C28_FlagIffLive ==
  mountedRef => (isAgentSpeaking <=> sourcesRef # {})

\* the ended event of a chunk that an interruption had stopped was delivered
\* while a later chunk was playing, and the flag is still up
C28_Witness ==
  /\ mountedRef
  /\ Len(handles) = 2
  /\ handles[1].st = "ended"
  /\ handles[1].intrs < log.intrs
  /\ handles[2].st = "playing"
  /\ sourcesRef = {2}
  /\ isAgentSpeaking

\* C29: once cleanup() has run, no step of a channel event handler and no
\* capture callback changes status, the finalized transcript, an in-progress
\* buffer or the playback cursor, and no frame is encoded.
C29_InertAfterCleanup ==
  [][(log.cleanups > 0)
       => /\ UNCHANGED << status, textVars, nextStartTimeRef >>
          /\ log.frames' = log.frames
    ]_vars

\* the frames passed to sendRealtimeInput of the channel of session s
SentOn(q, s) == { i \in DOMAIN q : q[i][1] = s }

\* C30: once session.close() has been called on a channel (by
\* handleCreatePlan or by cleanup) and the channel is closing, no further
\* frame is passed to that channel's sendRealtimeInput.
C30_NoSendAfterClose ==
  [][\A s \in Sessions :
       chan[s] = "closing" => SentOn(sent', s) = SentOn(sent, s)
    ]_vars

\* C31: onCreatePlan is invoked at most once per component instance, and
\* never on a step that finds the component already unmounted.
C31_PlanOnceWhileMounted ==
  /\ [](Len(planned) <= 1)
  /\ [][(Len(planned') > Len(planned)) => mountedRef]_vars

\* C32: a start that fails after its stream was acquired sets status to
\* 'error' on the failing step and holds nothing afterwards: its stream is
\* not live and no context it created is running.
C32_FailedStartReleases ==
  /\ [](\A s \in Sessions :
          startPc[s] = "threw"
            => /\ stream[s] # "live"
               /\ inCtx[s] # "running"
               /\ outCtx[s] # "running")
  /\ [][(\E s \in Sessions : startPc[s] # "threw" /\ startPc'[s] = "threw")
          => status' = "error"]_vars

\* ======================================================== App (src/App.tsx)
\* the transcripts LiveSession.handleCreatePlan passes to onCreatePlan: the
\* empty string when nothing was said, else the lines of the conversation
Transcripts == {"", "User: Chiang Mai temples"}

\* the prompt handleGenerate builds from the form fields
FormPrompt == "form"

Modes == {"LIVE", "PLANNER", "CHAT"}

\* the condition of the liveTranscript effect: a non-empty string is truthy
EffectDue ==
  /\ liveTranscript # NoTranscript
  /\ liveTranscript # ""
  /\ mode = "PLANNER"

Pending(i) == requests[i].st = "pending"

InFlight == { i \in 1..Len(requests) : Pending(i) }

\* generateItinerary up to its await
Requested(p) ==
  /\ loading' = TRUE
  /\ itinerary' = 0
  /\ requests' = Append(requests, [prompt |-> p, st |-> "pending"])

\* a sidebar button; pending effects are flushed before the next event
SetMode(m) ==
  /\ ~EffectDue
  /\ m # mode
  /\ mode' = m
  /\ UNCHANGED << loading, itinerary, liveTranscript, requests, liveCalls >>
  /\ UNCHANGED << liveVars, codecVars, saveVars, widgetVars >>

\* the Generate button of the planner form, disabled while loading
HandleGenerate ==
  /\ ~EffectDue
  /\ mode = "PLANNER"
  /\ ~loading
  /\ Len(requests) < MaxRequests
  /\ Requested(FormPrompt)
  /\ UNCHANGED << mode, liveTranscript, liveCalls >>
  /\ UNCHANGED << liveVars, codecVars, saveVars, widgetVars >>

\* onCreatePlan of a LiveSession, called from its timer
HandlePlanFromLive(t) ==
  /\ ~EffectDue
  /\ Len(liveCalls) < MaxLiveCalls
  /\ Len(requests) < MaxRequests
  /\ liveTranscript' = t
  /\ mode' = "PLANNER"
  /\ liveCalls' = Append(liveCalls, t)
  /\ UNCHANGED << loading, itinerary, requests >>
  /\ UNCHANGED << liveVars, codecVars, saveVars, widgetVars >>

\* the effect on [liveTranscript, mode]
LiveTranscriptEffect ==
  /\ EffectDue
  /\ Requested(liveTranscript)
  /\ liveTranscript' = NoTranscript
  /\ UNCHANGED << mode, liveCalls >>
  /\ UNCHANGED << liveVars, codecVars, saveVars, widgetVars >>

\* the awaited generation resolves: setItinerary(result), then finally
Generated(i) ==
  /\ i \in InFlight
  /\ requests' = [requests EXCEPT ![i].st = "done"]
  /\ itinerary' = i
  /\ loading' = FALSE
  /\ UNCHANGED << mode, liveTranscript, liveCalls >>
  /\ UNCHANGED << liveVars, codecVars, saveVars, widgetVars >>

\* the awaited generation rejects: alert, then finally
GenerateFailed(i) ==
  /\ i \in InFlight
  /\ requests' = [requests EXCEPT ![i].st = "failed"]
  /\ loading' = FALSE
  /\ UNCHANGED << mode, itinerary, liveTranscript, liveCalls >>
  /\ UNCHANGED << liveVars, codecVars, saveVars, widgetVars >>

NextApp ==
  \/ \E m \in Modes : SetMode(m)
  \/ HandleGenerate
  \/ \E t \in Transcripts : HandlePlanFromLive(t)
  \/ LiveTranscriptEffect
  \/ \E i \in 1..MaxRequests : Generated(i)
  \/ \E i \in 1..MaxRequests : GenerateFailed(i)

SpecApp == Init /\ [][NextApp]_vars

\* C33: overlapping generations. While a generateItinerary request is in
\* flight the loading flag is true, and once every request has settled an
\* itinerary on display is the result of the request that started last.
C33_LoadingAndLatest ==
  /\ (InFlight # {} => loading)
  /\ (InFlight = {} /\ itinerary # 0 => itinerary = Len(requests))

\* the transcripts of the generations the effect has started, in start order
LiveRequests == SelectSeq(requests, LAMBDA r : r.prompt # FormPrompt)

LivePrompts == [i \in 1..Len(LiveRequests) |-> LiveRequests[i].prompt]

\* C34: plan from a conversation. Every handlePlanFromLive(transcript) call
\* puts the app in PLANNER mode and leads to exactly one generation built from
\* that transcript; the pending transcript is then cleared, so a transcript is
\* held only until its effect has run.
C34_OneGenerationPerCall ==
  /\ [](LivePrompts = IF EffectDue
                        THEN SubSeq(liveCalls, 1, Len(liveCalls) - 1)
                        ELSE liveCalls)
  /\ [](liveTranscript # NoTranscript => EffectDue)
  /\ [][(Len(liveCalls') > Len(liveCalls)) => mode' = "PLANNER"]_vars

\* ------------------------------------------------- the saved-trip history
\* the history is held as the ids of its entries, first entry first

\* what earlier runs of the app left in the store: nothing, or the n most
\* recent of the trips saved so far
Stored(n) == [i \in 1..n |-> n + 1 - i]

StoredHistories == { Stored(n) : n \in {0, HistoryCap - 1, HistoryCap} }

\* Date.now(): later than the id of every entry saved before
Now(h) ==
  IF h = << >> THEN 1
  ELSE 1 + CHOOSE m \in { h[i] : i \in 1..Len(h) } :
             \A i \in 1..Len(h) : m >= h[i]

\* history.unshift(savedItem)
Unshift(h, x) == << x >> \o h

KeepAll(h) == h

\* history.slice(0, 10)
Keep(h) == SubSeq(h, 1, IF Len(h) < HistoryCap THEN Len(h) ELSE HistoryCap)

\* the Save button of the itinerary on display; getItem, JSON.parse or
\* setItem may throw, and the catch block only logs
HandleSaveItinerary ==
  /\ Len(saves) < MaxSaves
  /\ \/ /\ itinerary = 0
        /\ saves' = Append(saves, "ignored")
        /\ UNCHANGED history
     \/ /\ itinerary # 0
        /\ \E throws \in BOOLEAN :
             IF throws
               THEN /\ saves' = Append(saves, "failed")
                    /\ UNCHANGED history
               ELSE /\ saves' = Append(saves, "stored")
                    /\ history' = Keep(Unshift(history, Now(history)))
  /\ UNCHANGED << appVars, liveVars, codecVars, widgetVars >>

InitSave ==
  /\ Mounted
  /\ CodecIdle
  /\ AppStart
  /\ WidgetsIdle
  /\ history \in StoredHistories
  /\ saves = << >>

NextSave ==
  \/ \E m \in Modes : SetMode(m)
  \/ HandleGenerate
  \/ \E i \in 1..MaxRequests : Generated(i)
  \/ \E i \in 1..MaxRequests : GenerateFailed(i)
  \/ HandleSaveItinerary

SpecSave == InitSave /\ [][NextSave]_vars

\* C35: saved trips. The stored history never holds more than 10 entries and
\* is ordered newest first; a save that stores puts its entry first, and a
\* save with no itinerary on display or with a failing storage operation
\* leaves the stored history as it was.
C35_HistoryBounded ==
  /\ [](Len(history) <= HistoryCap)
  /\ [](\A i, j \in 1..Len(history) : i < j => history[i] > history[j])
  /\ [][(Len(saves') > Len(saves))
          => IF saves'[Len(saves')] = "stored"
               THEN /\ history' # << >>
                    /\ \A i \in 1..Len(history) : history'[1] > history[i]
               ELSE history' = history]_vars

C35_Witness ==
  /\ Len(history) = HistoryCap
  /\ history[HistoryCap] > 1
  /\ \E i \in 1..Len(saves) : saves[i] = "failed"
  /\ \E i \in 1..Len(saves) : saves[i] = "ignored"
  /\ saves[Len(saves)] = "stored"

\* ============================================ ChatBot (src/unnamed/part_002)
\* what the user may have typed in the input field
Inputs == { << >>, << " " >>, << "h", "i" >>, << " ", "h", "i", " " >> }

\* input.trim()
RECURSIVE TrimLeft(_)
TrimLeft(v) ==
  IF v # << >> /\ Head(v) = " " THEN TrimLeft(Tail(v)) ELSE v

RECURSIVE TrimRight(_)
TrimRight(v) ==
  IF v # << >> /\ v[Len(v)] = " "
    THEN TrimRight(SubSeq(v, 1, Len(v) - 1))
    ELSE v

Trim(v) == TrimRight(TrimLeft(v))

\* response.text: a reply, or nothing
Responses == { << "Try the mango sticky rice." >>, << >> }

Fallback == << "I'm sorry, I couldn't understand that." >>

Apology == << "Sorry, I had trouble connecting. Please try again." >>

notChatVars == << liveVars, codecVars, appVars, saveVars, readVars >>

\* the mount effect: chatSession.current = createChatSession()
ChatMountEffect ==
  /\ chatMounted
  /\ ~chatSession
  /\ chatSession' = TRUE
  /\ UNCHANGED << messages, input, chatLoading, chatMounted >>
  /\ UNCHANGED notChatVars

\* onChange of the input field
SetInput(v) ==
  /\ chatMounted
  /\ v # input
  /\ input' = v
  /\ UNCHANGED << messages, chatLoading, chatSession, chatMounted >>
  /\ UNCHANGED notChatVars

\* the submit button is enabled, or Enter submits the form
CanSubmit == ~chatLoading /\ Trim(input) # << >>

HandleSendUnchecked ==
  /\ chatMounted
  /\ CanSubmit
  /\ Cardinality({ k \in 1..Len(messages) : messages[k].role = "user" })
       < MaxSends
  /\ messages' = Append(messages, [role |-> "user", text |-> input])
  /\ input' = << >>
  /\ chatLoading' = TRUE
  /\ UNCHANGED << chatSession, chatMounted >>
  /\ UNCHANGED notChatVars

\* handleSend up to its await
HandleSend ==
  /\ chatMounted
  /\ CanSubmit
  /\ Trim(input) # << >>
  /\ chatSession
  /\ Cardinality({ k \in 1..Len(messages) : messages[k].role = "user" })
       < MaxSends
  /\ messages' = Append(messages, [role |-> "user", text |-> input])
  /\ input' = << >>
  /\ chatLoading' = TRUE
  /\ UNCHANGED << chatSession, chatMounted >>
  /\ UNCHANGED notChatVars

\* sendMessage resolves
Replied(r) ==
  /\ chatMounted
  /\ chatLoading
  /\ messages' = Append(messages,
                        [role |-> "model",
                         text |-> IF r = << >> THEN Fallback ELSE r])
  /\ chatLoading' = FALSE
  /\ UNCHANGED << input, chatSession, chatMounted >>
  /\ UNCHANGED notChatVars

\* sendMessage rejects
SendFailed ==
  /\ chatMounted
  /\ chatLoading
  /\ messages' = Append(messages, [role |-> "model", text |-> Apology])
  /\ chatLoading' = FALSE
  /\ UNCHANGED << input, chatSession, chatMounted >>
  /\ UNCHANGED notChatVars

\* the user leaves the chat page: the state of the instance is discarded and
\* a settling sendMessage updates nothing
ChatUnmount ==
  /\ chatMounted
  /\ chatMounted' = FALSE
  /\ UNCHANGED << messages, input, chatLoading, chatSession >>
  /\ UNCHANGED notChatVars

Settles == (\E r \in Responses : Replied(r)) \/ SendFailed

NextChat ==
  \/ ChatMountEffect
  \/ \E v \in Inputs : SetInput(v)
  \/ HandleSend
  \/ \E r \in Responses : Replied(r)
  \/ SendFailed
  \/ ChatUnmount

\* an awaited sendMessage settles
SpecChat == Init /\ [][NextChat]_vars /\ WF_vars(Settles)

\* the model message that answers a send
Answers == { Fallback, Apology } \cup (Responses \ { << >> })

\* C36: chat. The message list only grows at its end. It is the greeting
\* followed by user messages that are each followed by one model message (a
\* reply or the apology), the last of which is missing exactly while loading
\* is true; the model message of an accepted send arrives while the component
\* stays mounted; with blank input or no chat session no send is accepted,
\* and when none is awaited the list and the loading flag stay as they are.
C36_SendAppendsPair ==
  /\ [](/\ messages[1] = [role |-> "model", text |-> Greeting]
        /\ \A k \in 2..Len(messages) :
             IF k % 2 = 0
               THEN /\ messages[k].role = "user"
                    /\ Trim(messages[k].text) # << >>
               ELSE /\ messages[k].role = "model"
                    /\ messages[k].text \in Answers
        /\ chatLoading = (Len(messages) % 2 = 0))
  /\ [][/\ IsPrefix(messages, messages')
        /\ Len(messages') <= Len(messages) + 1]_vars
  /\ [][(Trim(input) = << >> \/ ~chatSession)
          => ~(/\ Len(messages') > Len(messages)
               /\ messages'[Len(messages')].role = "user")]_vars
  /\ [][(~chatLoading /\ (Trim(input) = << >> \/ ~chatSession))
          => /\ messages' = messages
             /\ chatLoading' = chatLoading]_vars
  /\ \A n \in 1..MaxSends :
       (chatMounted /\ chatLoading /\ Len(messages) = 2 * n)
         ~> (~chatMounted \/ (~chatLoading /\ Len(messages) = 2 * n + 1))

C36_Witness ==
  /\ chatMounted
  /\ ~chatLoading
  /\ Len(messages) = 5
  /\ messages[3].text = Apology
  /\ messages[4].text = << " ", "h", "i", " " >>
  /\ messages[5].text = Fallback
  /\ input = << " " >>

\* ========================= ItineraryResult (src/components/ItineraryResult.tsx)
\* App renders one ItineraryResult while the planner page shows an itinerary;
\* leaving the page or starting a generation unmounts it, and the next
\* itinerary shown is a new instance
notReadVars == << liveVars, codecVars, appVars, saveVars, chatVars >>

\* the contexts are held with the instance that created them
Open == { c \in 1..Len(contexts) : contexts[c].st = "running" }

OpenOf(i) == { c \in Open : contexts[c].by = i }

\* a state setter called on an instance that is no longer mounted is ignored
SetIfMounted(f, i, v) ==
  IF readMounted[i] = "mounted" THEN [f EXCEPT ![i] = v] ELSE f

Closed(cs, c) == [cs EXCEPT ![c].st = "closed"]

\* the planner page shows an itinerary again
ReadMount(i) ==
  /\ readMounted[i] = "none"
  /\ \A j \in Instances : j < i => readMounted[j] = "unmounted"
  /\ readMounted' = [readMounted EXCEPT ![i] = "mounted"]
  /\ UNCHANGED << isPlaying, isLoadingAudio, audioContextRef, contexts,
                  speech, closing >>
  /\ UNCHANGED notReadVars

\* the Read Aloud button (disabled while loading or playing) and
\* handleReadAloud up to its await
HandleReadAloud(i) ==
  /\ readMounted[i] = "mounted"
  /\ ~isLoadingAudio[i]
  /\ ~isPlaying[i]
  /\ Len(contexts)
       + Cardinality({ j \in Instances : speech[j] = "pending" })
       < MaxContexts
  /\ isLoadingAudio' = [isLoadingAudio EXCEPT ![i] = TRUE]
  /\ speech' = [speech EXCEPT ![i] = "pending"]
  /\ UNCHANGED << isPlaying, audioContextRef, contexts, closing,
                  readMounted >>
  /\ UNCHANGED notReadVars

\* new AudioContext(), source.start(), setIsPlaying(true), finally
StartPlayback(i, cs) ==
  /\ contexts' = Append(cs, [st |-> "running", by |-> i])
  /\ audioContextRef' = [audioContextRef EXCEPT ![i] = Len(cs) + 1]
  /\ isPlaying' = SetIfMounted(isPlaying, i, TRUE)
  /\ isLoadingAudio' = SetIfMounted(isLoadingAudio, i, FALSE)

\* generateSpeech resolves. A context still held is closed first; close() on
\* a context that is closed already rejects, which ends the call in the
\* catch block
SpeechResolved(i) ==
  /\ speech[i] = "pending"
  /\ speech' = [speech EXCEPT ![i] = "none"]
  /\ IF audioContextRef[i] = 0
       THEN StartPlayback(i, contexts)
       ELSE IF contexts[audioContextRef[i]].st = "running"
              THEN StartPlayback(i, Closed(contexts, audioContextRef[i]))
              ELSE /\ isLoadingAudio' = SetIfMounted(isLoadingAudio, i, FALSE)
                   /\ UNCHANGED << isPlaying, audioContextRef, contexts >>
  /\ UNCHANGED << closing, readMounted >>
  /\ UNCHANGED notReadVars

\* generateSpeech rejects: alert, finally
SpeechRejected(i) ==
  /\ speech[i] = "pending"
  /\ speech' = [speech EXCEPT ![i] = "none"]
  /\ isLoadingAudio' = SetIfMounted(isLoadingAudio, i, FALSE)
  /\ UNCHANGED << isPlaying, audioContextRef, contexts, closing,
                  readMounted >>
  /\ UNCHANGED notReadVars

\* source.onended of the source playing in context c: setIsPlaying(false),
\* ctx.close()
ReadEnded(c) ==
  /\ c \in Open
  /\ isPlaying' = SetIfMounted(isPlaying, contexts[c].by, FALSE)
  /\ contexts' = Closed(contexts, c)
  /\ closing' = closing \cup {c}
  /\ UNCHANGED << isLoadingAudio, audioContextRef, speech, readMounted >>
  /\ UNCHANGED notReadVars

\* the then-callback of ctx.close() in source.onended
CloseResolved(c) ==
  /\ c \in closing
  /\ closing' = closing \ {c}
  /\ audioContextRef' =
       [i \in Instances |->
          IF i = contexts[c].by /\ audioContextRef[i] = c
            THEN 0
            ELSE audioContextRef[i]]
  /\ UNCHANGED << isPlaying, isLoadingAudio, contexts, speech, readMounted >>
  /\ UNCHANGED notReadVars

\* the cleanup of the mount effect
ReadUnmount(i) ==
  /\ readMounted[i] = "mounted"
  /\ readMounted' = [readMounted EXCEPT ![i] = "unmounted"]
  /\ contexts' = IF audioContextRef[i] # 0
                   THEN Closed(contexts, audioContextRef[i])
                   ELSE contexts
  /\ UNCHANGED << isPlaying, isLoadingAudio, audioContextRef, speech,
                  closing >>
  /\ UNCHANGED notReadVars

NextRead ==
  \/ \E i \in Instances : ReadMount(i)
  \/ \E i \in Instances : HandleReadAloud(i)
  \/ \E i \in Instances : SpeechResolved(i)
  \/ \E i \in Instances : SpeechRejected(i)
  \/ \E c \in 1..MaxContexts : ReadEnded(c)
  \/ \E c \in 1..MaxContexts : CloseResolved(c)
  \/ \E i \in Instances : ReadUnmount(i)

\* a started source plays its buffer to the end
SpecRead ==
  Init /\ [][NextRead]_vars /\ WF_vars(\E c \in 1..MaxContexts : ReadEnded(c))

\* C37: read aloud. At most one read-aloud playback is active and at most one
\* context is open at a time. No speech request starts on an instance that
\* isPlaying, a context is created only when no other is open, and every
\* context created is closed in the end, also one created after an unmount
\* that came while the speech was awaited.
C37_OneContext ==
  /\ [](Cardinality(Open) <= 1)
  /\ [][\A i \in Instances :
          isPlaying[i] => ~(speech[i] = "none" /\ speech'[i] = "pending")]_vars
  /\ [][(Len(contexts') > Len(contexts))
          => \A c \in 1..Len(contexts) : contexts'[c].st = "closed"]_vars
  /\ \A c \in 1..MaxContexts :
       (c \in Open) ~> (c \in 1..Len(contexts) /\ contexts[c].st = "closed")

====
